---- MODULE Spec2Model ----
(***************************************************************************)
(* Model of the database layer of flask-restxpress.                        *)
(*                                                                         *)
(* The session lifecycle is src/database/db.py: get_session / the          *)
(* before_request hook, SqAlchemyConn.connect, BaseDB._execute and         *)
(* teardown_db, acting on flask.g, which holds one slot `db` per           *)
(* application context (here: per scope).  The driver underneath           *)
(* (create_engine, sessionmaker, Session.execute) is the environment: each *)
(* call to it either succeeds or raises, chosen nondeterministically.      *)
(* A Python exception is a value: a call ends in Return(v) or Raise(e).    *)
(***************************************************************************)
EXTENDS Integers, Sequences, FiniteSets, TLC

VARIABLES
    config,           \* app.config['db']: ordered mapping name -> entry
    default_db_name,  \* BaseDB.default_db_name, a class attribute
    status,           \* per scope: idle, active, aborted, done
    g,                \* per scope: flask.g's slot 'db' (NoDb when absent)
    dbs,              \* the heap: per scope, the db objects it constructed
    ncalls,           \* per scope: calls (get_session, _execute) the view has made
    acquired,         \* per scope: the objects get_session has returned
    last,             \* the last call: what it did and how it ended
    result            \* what resolving or validating the configuration gave

vars == <<config, default_db_name, status, g, dbs, ncalls, acquired, last,
          result>>

(***************************************************************************)
(* Bounds                                                                  *)
(***************************************************************************)
MaxScopes == 2
MaxCalls == 2

Scopes == 1..MaxScopes

None == "None"
NoDb == <<0, 0>>

NoConn == 0

(***************************************************************************)
(* An exception: its Python type and, for an error of the driver, the      *)
(* statement and the bound parameters the driver attaches to it.           *)
(***************************************************************************)
Err(t) == [type |-> t, statement |-> <<>>, params |-> <<>>]
NoErr == Err(None)

Return(v) == [ok |-> TRUE, val |-> v, err |-> NoErr]
Raise(e) == [ok |-> FALSE, val |-> 0, err |-> e]

(***************************************************************************)
(* Statements are sequences of characters, parameters a mapping from a     *)
(* name to a scalar, kept in order as a sequence of <<name, value>> pairs   *)
(* (no parameters, Python's None, is the empty sequence).                  *)
(***************************************************************************)
SelectOne == <<"s", "e", "l", "e", "c", "t", " ", "1">>
InsertRow == <<"i", "n", "s", "e", "r", "t", " ", "t">>
Statements == {SelectOne, InsertRow}

ParamNames == {"id"}
ParamValues == {5, 6}
Params == {<<>>} \cup {<< <<k, v>> >> : k \in ParamNames, v \in ParamValues}

NamesOf(params) == [i \in 1..Len(params) |-> params[i][1]]

(***************************************************************************)
(* app.config['db'].  Python dicts keep insertion order, so the mapping is *)
(* a sequence of entries with distinct names.                              *)
(***************************************************************************)
Keys(cfg) == {cfg[i].name : i \in 1..Len(cfg)}
Item(cfg, k) == cfg[CHOOSE i \in 1..Len(cfg) : cfg[i].name = k]

(***************************************************************************)
(* An entry of the mapping: its key (name) and the keys of its dict.  A    *)
(* key that is absent holds None (False for the boolean keys); params and  *)
(* connection_params are absent or a dict that may name a driver (a        *)
(* connection_params that is present has the fields of ConnectionParams).  *)
(***************************************************************************)
NoParams == [present |-> FALSE, driver |-> None]
Raw(n, t, d, ac, dialect, uri, params, path, use_odbc, driver) ==
    [name |-> n, type |-> t, default |-> d, auto_commit |-> ac,
     dialect |-> dialect, uri |-> uri, params |-> params, path |-> path,
     use_odbc |-> use_odbc, driver |-> driver, connection_params |-> NoParams]
Entry(n, t, d, ac) == Raw(n, t, d, ac, "mysql", "u", NoParams, None, FALSE, None)

AppConfigs ==
    { <<Entry("name", "sqlalchemy", TRUE, FALSE), Entry("aux", "odbc", FALSE, FALSE)>>,
      <<Entry("aux", "sqlalchemy", FALSE, TRUE), Entry("name", "dsn", TRUE, TRUE)>>,
      <<Entry("main", "sqlalchemy", TRUE, FALSE), Entry("aux", "dsn", FALSE, FALSE)>> }

DbNames == {"name", "main", "aux"}

(***************************************************************************)
(* Validation of a configuration document: src/models/db_model.py.         *)
(***************************************************************************)
Dialects == {"mysql", "mssql", "postgresql", "oracle", "sqlite"}

(* The keys present in the dict of an entry. *)
KeysOf(e) ==
    {k \in {"type", "dialect", "uri", "path", "driver"} : e[k] # None}
    \cup {k \in {"default", "auto_commit", "use_odbc"} : e[k]}
    \cup (IF e.params.present THEN {"params"} ELSE {})
    \cup (IF e.connection_params.present THEN {"connection_params"} ELSE {})

(* A dict without any of the keys the validator reads, and the params dict
   read as the dict of an entry. *)
NoKeys == Raw(None, None, FALSE, FALSE, None, None, NoParams, None, FALSE, None)
ParamsAsValues(params) == [NoKeys EXCEPT !.driver = params.driver]

(* The outcome of a validation: the exception it ended in, if any, with the
   messages that exception carries, and whether warn was called. *)
Checked(ok, exc, msgs, warned) ==
    [ok |-> ok, exc |-> exc, msgs |-> msgs, warned |-> warned]

(***************************************************************************)
(* DatabaseModel.field_validation from `dialect = values.get('dialect')`   *)
(* on, for a dict v: the rules in the order of the code, the first         *)
(* violated rule raising ValueError; warn(messages['uri_and_params']) is   *)
(* called before the driver rule is checked (warned: the call was made).   *)
(***************************************************************************)
(* A variant of the rules that does not ask a sqlite entry for its path. *)
CheckFields_no_path_rule(v) ==
    LET params == v.params.present
        driver == IF v.driver # None THEN v.driver
                  ELSE IF params THEN v.params.driver ELSE None
        warned == v.dialect # "sqlite" /\ v.uri # None /\ params
    IN  IF v.dialect # "sqlite" /\ v.uri = None /\ ~params
        THEN Checked(FALSE, "ValueError", {"uri_or_params"}, FALSE)
        ELSE IF v.use_odbc /\ driver = None
        THEN Checked(FALSE, "ValueError", {"missing_driver"}, warned)
        ELSE Checked(TRUE, None, {}, warned)

CheckFields(v) ==
    LET params == v.params.present
        driver == IF v.driver # None THEN v.driver
                  ELSE IF params THEN v.params.driver ELSE None
        warned == v.dialect # "sqlite" /\ v.uri # None /\ params
    IN  IF v.dialect = "sqlite" /\ v.path = None
        THEN Checked(FALSE, "ValueError", {"sqlite_path"}, FALSE)
        ELSE IF v.dialect # "sqlite" /\ v.uri = None /\ ~params
        THEN Checked(FALSE, "ValueError", {"uri_or_params"}, FALSE)
        ELSE IF v.use_odbc /\ driver = None
        THEN Checked(FALSE, "ValueError", {"missing_driver"}, warned)
        ELSE Checked(TRUE, None, {}, warned)

(* The declared fields, validated after the before-validator returned v:
   dialect is required and must be one of the five literals. *)
(* A variant in which dialect is an optional field of any value. *)
CheckModel_any_dialect(v) == CheckFields(v)

CheckModel(v) ==
    LET c == CheckFields(v)
    IN  IF c.ok /\ v.dialect \notin Dialects
        THEN Checked(FALSE, "ValueError", {"dialect"}, c.warned)
        ELSE c

(***************************************************************************)
(* DatabaseModel applied to the dict of an entry.  A dict of exactly one   *)
(* key is replaced by the value of that key: a params or connection_params *)
(* dict is then read as the entry, and any other value has no .get         *)
(* (AttributeError, which pydantic does not turn into a ValidationError).  *)
(***************************************************************************)
DatabaseModel(e) ==
    IF Cardinality(KeysOf(e)) = 1
    THEN IF e.params.present THEN CheckModel(ParamsAsValues(e.params))
         ELSE IF e.connection_params.present
         THEN CheckModel(ParamsAsValues(e.connection_params))
         ELSE Checked(FALSE, "AttributeError", {}, FALSE)
    ELSE CheckModel(e)

(* DatabaseModel applied to a whole document (model "single"): a document of
   one entry is unwrapped to that entry, any other has none of the keys. *)
SingleModel(doc) ==
    IF Len(doc) = 1 THEN CheckModel(doc[1]) ELSE CheckModel(NoKeys)

(***************************************************************************)
(* MultiDatabaseModel = RootModel[Dict[str, DatabaseModel]] with an empty  *)
(* body: every value is validated as a DatabaseModel and nothing else is   *)
(* checked.  The ValueErrors are collected into one ValidationError; an    *)
(* AttributeError leaves the validation at once.                           *)
(***************************************************************************)
MultiDatabaseModel(doc) ==
    LET each == [i \in 1..Len(doc) |-> DatabaseModel(doc[i])]
        warned == \E i \in 1..Len(doc) : each[i].warned
    IN  IF \E i \in 1..Len(doc) : each[i].exc = "AttributeError"
        THEN Checked(FALSE, "AttributeError", {}, warned)
        ELSE IF \E i \in 1..Len(doc) : ~each[i].ok
        THEN Checked(FALSE, "ValueError",
                     UNION {each[i].msgs : i \in 1..Len(doc)}, warned)
        ELSE Checked(TRUE, None, {}, warned)

(* validate_and_return: True, or False on ValidationError; anything else
   propagates. *)
validate_and_return(c) ==
    IF c.ok THEN Return(TRUE)
    ELSE IF c.exc = "ValueError" THEN Return(FALSE)
    ELSE Raise(Err(c.exc))

(* validate_db_model(db_config, model): the named model, or for any other
   value of model the first of single, multi that accepts the document. *)
validate_db_model(doc, model) ==
    IF model = "single" THEN validate_and_return(SingleModel(doc))
    ELSE IF model = "multi" THEN validate_and_return(MultiDatabaseModel(doc))
    ELSE LET one == validate_and_return(SingleModel(doc))
             many == validate_and_return(MultiDatabaseModel(doc))
         IN  IF ~one.ok THEN one
             ELSE IF one.val THEN one
             ELSE IF ~many.ok THEN many
             ELSE IF many.val THEN many
             ELSE Return(FALSE)

(* validate_db_config(self.config) of BaseDB.__init__: the validator with its
   default model "single", handed the dict of one entry. *)
validate_db_config(db_config) == validate_and_return(DatabaseModel(db_config))

(***************************************************************************)
(* get_type: the connector type of the named entry, or of the class-level  *)
(* default when no name is given.  A missing key raises KeyError.          *)
(***************************************************************************)
get_type(cfg, name, dflt) ==
    LET n == IF name # None THEN name ELSE dflt
    IN  IF n \in Keys(cfg) THEN Return(Item(cfg, n).type) ELSE Raise(Err("KeyError"))

(* dbclass.get(db_type): the two registered classes, None for the rest. *)
dbclass(db_type) == IF db_type \in {"odbc", "sqlalchemy"} THEN db_type ELSE None

(***************************************************************************)
(* set_defaults calls get_default_db(config), a function of two            *)
(* parameters (self, config), with one argument: TypeError.                *)
(***************************************************************************)
set_defaults(cfg) == Raise(Err("TypeError"))

(***************************************************************************)
(* BaseDB.__init__ up to the selection of the entry.  Line 100 computes    *)
(* the effective name, line 103 then subscripts the mapping with the       *)
(* literal key 'name'.  The value returned is the name of the entry that   *)
(* became self.config.  Line 106 validates that entry and drops what the   *)
(* validator returns; only an exception of the validator ends the          *)
(* constructor.                                                            *)
(***************************************************************************)
BaseDB_init(cfg, name, dflt) ==
    LET sd == IF dflt = None THEN set_defaults(cfg) ELSE Return(dflt)
    IN  IF ~sd.ok THEN sd
        ELSE LET effective == IF name # None THEN name ELSE dflt
             IN  IF "name" \notin Keys(cfg) THEN Raise(Err("KeyError"))
                 ELSE LET v == validate_db_config(Item(cfg, "name"))
                      IN  IF ~v.ok THEN v ELSE Return("name")

(***************************************************************************)
(* SqAlchemyConn.__init__: a KeyError of the base constructor is answered  *)
(* with raise("..."), raising a str, which is a TypeError.                 *)
(***************************************************************************)
SqAlchemyConn_init(cfg, name, dflt) ==
    LET r == BaseDB_init(cfg, name, dflt)
    IN  IF ~r.ok /\ r.err.type = "KeyError" THEN Raise(Err("TypeError")) ELSE r

(***************************************************************************)
(* OdbcConn (deprecated) defines connect and _execute but not the abstract *)
(* method execute of BaseDB(ABC): instantiating it raises TypeError.       *)
(***************************************************************************)
OdbcConn_init(cfg, name, dflt) == Raise(Err("TypeError"))

Construct(cls, cfg, name, dflt) ==
    IF cls = "sqlalchemy" THEN SqAlchemyConn_init(cfg, name, dflt)
    ELSE OdbcConn_init(cfg, name, dflt)

(***************************************************************************)
(* The entry a call get_session(name) resolves to when the scope has no db *)
(* object yet: get_type picks the class by the given name or the class     *)
(* default, dbclass.get maps it, and the constructor selects the entry.    *)
(***************************************************************************)
resolve(cfg, name, dflt) ==
    LET db_type == get_type(cfg, name, dflt)
    IN  IF ~db_type.ok THEN db_type
        ELSE IF dbclass(db_type.val) = None THEN Raise(Err("ValueError"))
        ELSE Construct(dbclass(db_type.val), cfg, name, dflt)

(***************************************************************************)
(* The heap.  dbs[s] lists the db objects scope s has constructed, so the  *)
(* reference <<s, i>> names the i-th of them; every construction yields a  *)
(* new reference.  A db object keeps the sessions its connect has opened;  *)
(* its conn is NoConn (Python's None) or the index of one of them.  A      *)
(* session counts the calls of close on it and remembers the scopes that   *)
(* were handed it, ran a statement on it or closed it.                     *)
(***************************************************************************)
NewDb(entry) == [cfg |-> entry, conn |-> NoConn, sessions |-> <<>>]
NewSession == [closes |-> 0, users |-> {}]

Obj(H, d) == H[d[1]][d[2]]
Refs(H) == UNION {{<<s, i>> : i \in 1..Len(H[s])} : s \in DOMAIN H}
Touch(H, d, c, s) == [H EXCEPT ![d[1]][d[2]].sessions[c].users = @ \cup {s}]

(* What the engine answers to connect; the three handlers of connect treat
   OperationalError, SQLAlchemyError and Exception alike. *)
EngineOutcomes == {"ok", "OperationalError"}

(***************************************************************************)
(* SqAlchemyConn.connect on db object d of heap H, the engine answering    *)
(* eng.  An existing session is returned as it is.  Every exception of     *)
(* scoped_session(sessionmaker(bind=self.engine)) is caught: conn becomes  *)
(* None and the method falls off its end, returning None.  The finally     *)
(* clause evaluates the attribute self.close without calling it.           *)
(***************************************************************************)
connect(H, d, eng) ==
    IF Obj(H, d).conn # NoConn
    THEN [dbs |-> H, ret |-> Obj(H, d).conn, failed |-> FALSE]
    ELSE IF eng = "ok"
         THEN LET c == Len(Obj(H, d).sessions) + 1
              IN  [dbs |-> [H EXCEPT ![d[1]][d[2]].sessions = Append(@, NewSession),
                                     ![d[1]][d[2]].conn = c],
                   ret |-> c, failed |-> FALSE]
         ELSE [dbs |-> [H EXCEPT ![d[1]][d[2]].conn = NoConn],
               ret |-> NoConn, failed |-> TRUE]

(***************************************************************************)
(* str.strip() and str.lower() on a sequence of characters, and the        *)
(* regular expressions ^word\s of is_stored_procedure.                     *)
(***************************************************************************)
Whitespace == {" ", "\t", "\n"}
Uppers == <<"A", "B", "C", "D", "E", "F", "G", "H", "I", "J", "K", "L", "M",
            "N", "O", "P", "Q", "R", "S", "T", "U", "V", "W", "X", "Y", "Z">>
Lowers == <<"a", "b", "c", "d", "e", "f", "g", "h", "i", "j", "k", "l", "m",
            "n", "o", "p", "q", "r", "s", "t", "u", "v", "w", "x", "y", "z">>

LowerMap == [c \in {Uppers[i] : i \in 1..26} |->
                Lowers[CHOOSE i \in 1..26 : Uppers[i] = c]]
UpperMap == [c \in {Lowers[i] : i \in 1..26} |->
                Uppers[CHOOSE i \in 1..26 : Lowers[i] = c]]

lower_char(c) == IF c \in DOMAIN LowerMap THEN LowerMap[c] ELSE c
upper_char(c) == IF c \in DOMAIN UpperMap THEN UpperMap[c] ELSE c

lower(str) == [i \in 1..Len(str) |-> lower_char(str[i])]
upper(str) == [i \in 1..Len(str) |-> upper_char(str[i])]

RECURSIVE lstrip(_)
lstrip(str) ==
    IF str # <<>> /\ Head(str) \in Whitespace THEN lstrip(Tail(str)) ELSE str
RECURSIVE rstrip(_)
rstrip(str) ==
    IF str # <<>> /\ str[Len(str)] \in Whitespace
    THEN rstrip(SubSeq(str, 1, Len(str) - 1)) ELSE str
strip(str) == rstrip(lstrip(str))

startswith(str, prefix) ==
    Len(str) >= Len(prefix) /\ SubSeq(str, 1, Len(prefix)) = prefix

(* re.match(r"^word\s", query) *)
MatchesWord(query, word) ==
    /\ startswith(query, word)
    /\ Len(query) > Len(word)
    /\ query[Len(word) + 1] \in Whitespace

ProcedureWords == { <<"e", "x", "e", "c">>,
                    <<"e", "x", "e", "c", "u", "t", "e">>,
                    <<"c", "a", "l", "l">>,
                    <<"b", "e", "g", "i", "n">>,
                    <<"d", "e", "c", "l", "a", "r", "e">> }

is_stored_procedure(query) ==
    LET q == lower(strip(query))
    IN  \E w \in ProcedureWords : MatchesWord(q, w)

(* write_cmd and is_write_cmd: query.strip().upper().startswith(write_cmd). *)
write_cmd == { <<"U", "P", "D", "A", "T", "E">>,
               <<"I", "N", "S", "E", "R", "T">>,
               <<"D", "E", "L", "E", "T", "E">> }
(* A variant of is_write_cmd that compares the statement as it is written. *)
is_write_cmd_as_written(query) ==
    \E w \in write_cmd : startswith(query, w)

is_write_cmd(query) ==
    LET q == upper(strip(query))
    IN  \E w \in write_cmd : startswith(q, w)

(* BaseDB._sort and BaseDB._page: the default hooks. *)
_sort(sql) == sql
_page(sql) == IF is_stored_procedure(sql) THEN _sort(sql) ELSE sql

(***************************************************************************)
(* The error of the driver when Session.execute fails: SQLAlchemy's        *)
(* exception, which carries the statement and the parameters bound to it.  *)
(***************************************************************************)
DriverError(query, params) ==
    [type |-> "SQLAlchemyError", statement |-> query, params |-> params]

DriverOutcomes == {"ok", "error"}

(* SqAlchemyConn.execute on an open session: the rows, or the driver's error. *)
execute(query, params, drv) ==
    IF drv = "ok" THEN Return(1) ELSE Raise(DriverError(query, params))

(***************************************************************************)
(* get_session(name) run by scope s.  G is flask.g of every scope; the     *)
(* code reads and writes the slot of the current scope only.  `rest` tells *)
(* whether the remainder of the constructor (the registration of methods)  *)
(* completes; eng is the engine's answer to connect.  g.db is assigned     *)
(* before connect runs.                                                    *)
(***************************************************************************)
(* Variants of get_session: one that builds a new db object on every call,
   one that never connects, one that keeps a single db object for all scopes. *)
get_session_fresh(H, G, s, name, cfg, dflt, rest, eng) ==
    LET d == <<s, Len(H[s]) + 1>>
        H1 == [H EXCEPT ![s] = Append(@, NewDb("name"))]
        k == connect(H1, d, eng)
    IN  [g |-> [G EXCEPT ![s] = d], dbs |-> k.dbs, res |-> Return(d),
         connFail |-> k.failed]

get_session_lazy(H, G, s, name, cfg, dflt, rest, eng) ==
    IF G[s] # NoDb
    THEN [g |-> G, dbs |-> H, res |-> Return(G[s]), connFail |-> FALSE]
    ELSE [g |-> [G EXCEPT ![s] = <<s, Len(H[s]) + 1>>],
          dbs |-> [H EXCEPT ![s] = Append(@, NewDb("name"))],
          res |-> Return(<<s, Len(H[s]) + 1>>), connFail |-> FALSE]

get_session_shared(H, G, s, name, cfg, dflt, rest, eng) ==
    IF \E t \in DOMAIN G : G[t] # NoDb
    THEN LET d == G[CHOOSE t \in DOMAIN G : G[t] # NoDb]
         IN  [g |-> [G EXCEPT ![s] = d], dbs |-> H, res |-> Return(d),
              connFail |-> FALSE]
    ELSE LET d == <<s, Len(H[s]) + 1>>
             H1 == [H EXCEPT ![s] = Append(@, NewDb("name"))]
             k == connect(H1, d, eng)
         IN  [g |-> [G EXCEPT ![s] = d], dbs |-> k.dbs, res |-> Return(d),
              connFail |-> k.failed]

(* A variant of get_session that honours a name on every call: a call with
   a name builds and connects a new db object for the scope. *)
get_session_by_name(H, G, s, name, cfg, dflt, rest, eng) ==
    IF G[s] # NoDb /\ name = None
    THEN [g |-> G, dbs |-> H, res |-> Return(G[s]), connFail |-> FALSE]
    ELSE LET d == <<s, Len(H[s]) + 1>>
             H1 == [H EXCEPT ![s] = Append(@, NewDb("name"))]
             k == connect(H1, d, eng)
         IN  [g |-> [G EXCEPT ![s] = d], dbs |-> k.dbs, res |-> Return(d),
              connFail |-> k.failed]

get_session(H, G, s, name, cfg, dflt, rest, eng) ==
    LET same(res) == [g |-> G, dbs |-> H, res |-> res, connFail |-> FALSE]
    IN  IF G[s] # NoDb THEN same(Return(G[s]))
        ELSE LET c == resolve(cfg, name, dflt)
             IN  IF ~c.ok THEN same(c)
                 ELSE IF ~rest THEN same(Raise(Err("Exception")))
                 ELSE LET d == <<s, Len(H[s]) + 1>>
                          H1 == [H EXCEPT ![s] = Append(@, NewDb(c.val))]
                          k == connect(H1, d, eng)
                      IN  [g |-> [G EXCEPT ![s] = d],
                           dbs |-> k.dbs,
                           res |-> Return(d),
                           connFail |-> k.failed]

(***************************************************************************)
(* BaseDB._execute(sql, params) on db object d, run by scope s.            *)
(*   try:    connect when conn is falsy; page; execute; commit             *)
(*   except: rollback; print; raise                                        *)
(* With conn still None, self.conn.execute raises AttributeError and so    *)
(* does self.conn.rollback() inside the handler.  commits and rollbacks    *)
(* count the calls of commit and rollback on the session.                  *)
(***************************************************************************)
(* A variant of _execute whose handler re-raises without rolling back. *)
_execute_no_rollback(H, d, s, sql, params, eng, drv) ==
    LET c == Obj(H, d).conn
        r == execute(_page(sql), params, drv)
    IN  IF c = NoConn
        THEN [dbs |-> H, res |-> Raise(Err("AttributeError")),
              connFail |-> FALSE, execFail |-> FALSE,
              commits |-> 0, rollbacks |-> 0]
        ELSE [dbs |-> Touch(H, d, c, s), res |-> r,
              connFail |-> FALSE, execFail |-> ~r.ok,
              commits |-> IF r.ok THEN 1 ELSE 0, rollbacks |-> 0]

_execute(H, d, s, sql, params, eng, drv) ==
    LET k == IF Obj(H, d).conn = NoConn THEN connect(H, d, eng)
             ELSE [dbs |-> H, ret |-> Obj(H, d).conn, failed |-> FALSE]
        c == k.ret
        query == _page(sql)
        r == execute(query, params, drv)
    IN  IF c = NoConn
        THEN [dbs |-> k.dbs, res |-> Raise(Err("AttributeError")),
              connFail |-> k.failed, execFail |-> FALSE,
              commits |-> 0, rollbacks |-> 0]
        ELSE IF r.ok
             THEN [dbs |-> Touch(k.dbs, d, c, s), res |-> r,
                   connFail |-> FALSE, execFail |-> FALSE,
                   commits |-> 1, rollbacks |-> 0]
             ELSE [dbs |-> Touch(k.dbs, d, c, s), res |-> r,
                   connFail |-> FALSE, execFail |-> TRUE,
                   commits |-> 0, rollbacks |-> 1]

(***************************************************************************)
(* teardown_db(exception) run by scope s: pop the slot, close the          *)
(* connection of what was popped.  The exception argument is not read.     *)
(* db.conn.close() on a db object whose conn is None raises                *)
(* AttributeError.                                                         *)
(***************************************************************************)
(* A variant of teardown_db that pops the slot without a default. *)
teardown_db_no_default(H, G, s, exception) ==
    LET db == G[s]
        popped == [G EXCEPT ![s] = NoDb]
    IN  IF db = NoDb
        THEN [g |-> G, dbs |-> H, res |-> Raise(Err("KeyError"))]
        ELSE IF Obj(H, db).conn = NoConn
             THEN [g |-> popped, dbs |-> H, res |-> Raise(Err("AttributeError"))]
             ELSE [g |-> popped,
                   dbs |-> [Touch(H, db, Obj(H, db).conn, s)
                              EXCEPT ![db[1]][db[2]].sessions[Obj(H, db).conn].closes = @ + 1],
                   res |-> Return(0)]

(* A variant of teardown_db that closes only when the request ended well. *)
teardown_db_unless_failed(H, G, s, exception) ==
    LET db == G[s]
        popped == [G EXCEPT ![s] = NoDb]
    IN  IF db = NoDb \/ exception # NoErr
        THEN [g |-> popped, dbs |-> H, res |-> Return(0)]
        ELSE IF Obj(H, db).conn = NoConn
             THEN [g |-> popped, dbs |-> H, res |-> Raise(Err("AttributeError"))]
             ELSE [g |-> popped,
                   dbs |-> [Touch(H, db, Obj(H, db).conn, s)
                              EXCEPT ![db[1]][db[2]].sessions[Obj(H, db).conn].closes = @ + 1],
                   res |-> Return(0)]

teardown_db(H, G, s, exception) ==
    LET db == G[s]
        popped == [G EXCEPT ![s] = NoDb]
    IN  IF db = NoDb
        THEN [g |-> popped, dbs |-> H, res |-> Return(0)]
        ELSE IF Obj(H, db).conn = NoConn
             THEN [g |-> popped, dbs |-> H, res |-> Raise(Err("AttributeError"))]
             ELSE [g |-> popped,
                   dbs |-> [Touch(H, db, Obj(H, db).conn, s)
                              EXCEPT ![db[1]][db[2]].sessions[Obj(H, db).conn].closes = @ + 1],
                   res |-> Return(0)]

(***************************************************************************)
(* The state machine of the session lifecycle.  A scope is one request:    *)
(* the before_request hook runs get_session(), the view then calls         *)
(* get_session and _execute, and teardown_db runs once when the            *)
(* application context of the request is popped, whatever happened before. *)
(* `last` records the last call: who made it, with what, and how it ended. *)
(***************************************************************************)
NoCall == [op |-> "none", scope |-> 0, sql |-> <<>>, pnames |-> <<>>, ok |-> TRUE,
           err |-> NoErr, connFail |-> FALSE, execFail |-> FALSE,
           commits |-> 0, rollbacks |-> 0, exception |-> NoErr]

(* A value a call returns: its kind (str, dict, list, item) and its text as
   a sequence of pieces; NoValue is Python's None. *)
NoValue == <<None, <<>>>>

NoResult == [op |-> "none", name |-> None, model |-> None, ok |-> TRUE,
             entry |-> None, valid |-> FALSE, warned |-> FALSE, msgs |-> {},
             returned |-> NoValue, err |-> NoErr, supplied |-> <<>>]

Idle ==
    /\ status = [s \in Scopes |-> "idle"]
    /\ g = [s \in Scopes |-> NoDb]
    /\ dbs = [s \in Scopes |-> <<>>]
    /\ ncalls = [s \in Scopes |-> 0]
    /\ acquired = [s \in Scopes |-> {}]
    /\ last = NoCall

Init ==
    /\ config \in AppConfigs
    /\ default_db_name \in {None} \cup DbNames
    /\ result = NoResult
    /\ Idle

(* The environment is asked only where the call of scope s reaches it: the
   engine when the db object of the scope has no connection yet, the rest of
   the constructor when the scope has no db object yet. *)
EngineEnv(s) ==
    IF g[s] # NoDb /\ Obj(dbs, g[s]).conn # NoConn THEN {"ok"} ELSE EngineOutcomes
ConstructorEnv(s) == IF g[s] # NoDb THEN {TRUE} ELSE BOOLEAN

(* The session of the db object get_session returned is handed to scope s. *)
Handed(r, s) ==
    IF r.res.ok /\ Obj(r.dbs, r.res.val).conn # NoConn
    THEN Touch(r.dbs, r.res.val, Obj(r.dbs, r.res.val).conn, s)
    ELSE r.dbs

CallGetSession(s, name, rest, eng) ==
    LET r == get_session(dbs, g, s, name, config, default_db_name, rest, eng)
    IN  /\ g' = r.g
        /\ dbs' = Handed(r, s)
        /\ acquired' = IF r.res.ok
                       THEN [acquired EXCEPT ![s] = @ \cup {r.res.val}]
                       ELSE acquired
        /\ last' = [NoCall EXCEPT !.op = "get_session", !.scope = s,
                                  !.ok = r.res.ok, !.err = r.res.err,
                                  !.connFail = r.connFail]

(* @app.before_request _get_session: an exception here ends the request. *)
BeforeRequest(s) ==
    /\ status[s] = "idle"
    /\ \E rest \in ConstructorEnv(s), eng \in EngineEnv(s) :
          CallGetSession(s, None, rest, eng)
    /\ status' = [status EXCEPT ![s] = IF last'.ok THEN "active" ELSE "aborted"]
    /\ UNCHANGED <<config, default_db_name, ncalls, result>>

(* The view acquires the session again, under any name. *)
ViewGetSession(s) ==
    /\ status[s] = "active"
    /\ ncalls[s] < MaxCalls
    /\ \E name \in {None} \cup DbNames, rest \in ConstructorEnv(s),
          eng \in EngineEnv(s) :
          CallGetSession(s, name, rest, eng)
    /\ ncalls' = [ncalls EXCEPT ![s] = @ + 1]
    /\ UNCHANGED <<config, default_db_name, status, result>>

(* The view runs a query on the db object of its scope. *)
ViewExecute(s) ==
    /\ status[s] = "active"
    /\ ncalls[s] < MaxCalls
    /\ g[s] # NoDb
    /\ \E sql \in Statements, params \in Params,
          eng \in EngineEnv(s), drv \in DriverOutcomes :
          LET r == _execute(dbs, g[s], s, sql, params, eng, drv)
          IN  /\ dbs' = r.dbs
              /\ last' = [op |-> "_execute", scope |-> s, sql |-> sql,
                          pnames |-> NamesOf(params),
                          ok |-> r.res.ok, err |-> r.res.err,
                          connFail |-> r.connFail, execFail |-> r.execFail,
                          commits |-> r.commits, rollbacks |-> r.rollbacks,
                          exception |-> NoErr]
    /\ ncalls' = [ncalls EXCEPT ![s] = @ + 1]
    /\ UNCHANGED <<config, default_db_name, status, g, acquired, result>>

(* The exception Flask hands to the teardown functions: None, or the error of
   the scope's last call when the view let it through. *)
UnhandledEnv(s) ==
    {NoErr} \cup (IF last.scope = s /\ ~last.ok THEN {last.err} ELSE {})

(* @app.teardown_appcontext teardown_db: the scope ends. *)
Teardown(s) ==
    /\ status[s] \in {"active", "aborted"}
    /\ \E exception \in UnhandledEnv(s) :
          LET r == teardown_db(dbs, g, s, exception)
          IN  /\ g' = r.g
              /\ dbs' = r.dbs
              /\ last' = [NoCall EXCEPT !.op = "teardown_db", !.scope = s,
                                        !.ok = r.res.ok, !.err = r.res.err,
                                        !.exception = exception]
    /\ status' = [status EXCEPT ![s] = "done"]
    /\ UNCHANGED <<config, default_db_name, ncalls, acquired, result>>

Next ==
    \E s \in Scopes :
        \/ BeforeRequest(s)
        \/ ViewGetSession(s)
        \/ ViewExecute(s)
        \/ Teardown(s)

Spec == Init /\ [][Next]_vars

(***************************************************************************)
(* Properties of the session lifecycle                                     *)
(***************************************************************************)
SessionsOf(s) ==
    UNION {{<<i, c>> : c \in 1..Len(dbs[s][i].sessions)} : i \in 1..Len(dbs[s])}
SessionAt(s, p) == dbs[s][p[1]].sessions[p[2]]
HasConn(s) == g[s] # NoDb /\ Obj(dbs, g[s]).conn # NoConn

(* C1: every session opened in a scope has been closed exactly once when the
   scope has ended, whether or not a query of the scope raised, and is not
   closed before the scope ends. *)
C1_ClosedExactlyOnce ==
    \A s \in Scopes : \A p \in SessionsOf(s) :
        SessionAt(s, p).closes = IF status[s] = "done" THEN 1 ELSE 0

(* A scope whose query raised has ended and its session is closed once. *)
C1_Witness ==
    /\ last.op = "teardown_db"
    /\ last.exception.type = "SQLAlchemyError"
    /\ \E p \in SessionsOf(last.scope) : SessionAt(last.scope, p).closes = 1

(* C2: all acquisitions within one scope return the same object, and
   acquisitions of different scopes return different objects. *)
C2_OneObjectPerScope ==
    /\ \A s \in Scopes : Cardinality(acquired[s]) <= 1
    /\ \A s, t \in Scopes : s # t => acquired[s] \cap acquired[t] = {}

(* The view of a scope acquires the session a second time while another
   scope has acquired its own. *)
C2_Witness ==
    /\ last.op = "get_session" /\ last.ok
    /\ ncalls[last.scope] >= 1
    /\ \E t \in Scopes : t # last.scope /\ acquired[t] # {}

(* C3, as stated: a scope that ends without having run any query (its view
   made no call at all) has created no session. *)
C3_LazyOnFirstQuery ==
    \A s \in Scopes :
        (status[s] = "done" /\ ncalls[s] = 0) => SessionsOf(s) = {}

(* C3, amended: the session is created by the first acquisition of the scope,
   which the before_request hook makes when the scope starts and before any
   query (when that acquisition returns and its connect did not fail, the
   session exists); a scope that has not started has created nothing, and a
   scope creates at most one session. *)
C3_CreatedOnFirstAcquisition ==
    \A s \in Scopes :
        /\ status[s] = "idle" => dbs[s] = <<>>
        /\ Cardinality(SessionsOf(s)) <= 1
        /\ (last.op = "get_session" /\ last.scope = s /\ ncalls[s] = 0
                /\ last.ok /\ ~last.connFail)
               => Cardinality(SessionsOf(s)) = 1

(* The hook has run, the view has made no call, and the session exists. *)
C3_Witness ==
    \E s \in Scopes :
        status[s] = "active" /\ ncalls[s] = 0 /\ SessionsOf(s) # {}

(* C4: when the connector's execute fails with a driver error, _execute has
   called rollback on the session once, has not called commit, and raises
   the driver's error to the caller. *)
C4_RollbackAndReraise ==
    (last.op = "_execute" /\ last.execFail) =>
        /\ last.rollbacks = 1
        /\ last.commits = 0
        /\ ~last.ok
        /\ last.err.type = "SQLAlchemyError"

C4_Witness == last.op = "_execute" /\ last.execFail /\ last.pnames # <<>>

(* C5: a write statement is committed by the executor exactly when autoCommit
   is enabled for the database, and a read statement returns its rows
   without a commit on the session. *)
AutoCommitOf(s) == Item(config, Obj(dbs, g[s]).cfg).auto_commit
C5_CommitOnlyWrites ==
    (last.op = "_execute" /\ last.ok) =>
        last.commits = IF is_write_cmd(last.sql) /\ AutoCommitOf(last.scope)
                       THEN 1 ELSE 0

(* C6: when the connection cannot be opened, the call does not complete
   normally: the failure is raised to the caller. *)
C6_ConnectFailureRaised ==
    last.connFail => ~last.ok

(* C7: the error of a failed execution carries the statement and the names
   of its parameters, and none of their values. *)
C7_ErrorHasNoValues ==
    (last.op = "_execute" /\ last.execFail) =>
        /\ last.err.statement = last.sql
        /\ \A i \in 1..Len(last.err.params) : last.err.params[i][2] \notin ParamValues

(* C8: a session is handed to, used by and closed by the scope that created
   it and no other; the slot of a scope refers to an object of that scope,
   and a scope has at most one session. *)
C8_SessionsNotShared ==
    \A s \in Scopes :
        /\ \A p \in SessionsOf(s) : SessionAt(s, p).users \subseteq {s}
        /\ g[s] # NoDb => g[s][1] = s
        /\ \A d \in acquired[s] : d[1] = s
        /\ Cardinality(SessionsOf(s)) <= 1

(* Two scopes are active at once, each having run a statement on its own
   session. *)
C8_Witness ==
    \E s, t \in Scopes :
        /\ s # t
        /\ status[s] = "active" /\ status[t] = "active"
        /\ HasConn(s) /\ HasConn(t)
        /\ ncalls[s] >= 1 /\ ncalls[t] >= 1
        /\ last.op = "_execute" /\ last.ok

(***************************************************************************)
(* Resolution of the effective configuration, as a function of the mapping,*)
(* the name argument and the class default.  The mappings are all ordered  *)
(* mappings of at most MaxDbs entries.                                     *)
(***************************************************************************)
MaxDbs == 2

RECURSIVE SeqsUpTo(_, _)
SeqsUpTo(S, n) ==
    IF n = 0 THEN {<<>>}
    ELSE LET shorter == SeqsUpTo(S, n - 1)
         IN  shorter \cup {Append(q, x) : q \in shorter, x \in S}

DistinctNames(cfg) == \A i, j \in 1..Len(cfg) : cfg[i].name = cfg[j].name => i = j

ResolveEntries ==
    {Entry(n, t, d, FALSE) : n \in DbNames, t \in {"sqlalchemy", "odbc"}, d \in BOOLEAN}
ResolveConfigs ==
    {cfg \in SeqsUpTo(ResolveEntries, MaxDbs) : cfg # <<>> /\ DistinctNames(cfg)}

InitResolve ==
    /\ config \in ResolveConfigs
    /\ default_db_name \in {None} \cup DbNames
    /\ result = NoResult
    /\ Idle

Resolve(name) ==
    /\ result.op = "none"
    /\ LET r == resolve(config, name, default_db_name)
       IN  result' = [NoResult EXCEPT !.op = "resolve", !.name = name,
                                      !.ok = r.ok, !.err = r.err,
                                      !.entry = IF r.ok THEN r.val ELSE None]
    /\ UNCHANGED <<config, default_db_name, status, g, dbs, ncalls, acquired, last>>

NextResolve == \E name \in {None} \cup DbNames : Resolve(name)

SpecResolve == InitResolve /\ [][NextResolve]_vars

Defaults(cfg) == {i \in 1..Len(cfg) : cfg[i].default}
PrecedenceOf(cfg, name) ==
    IF name # None THEN name
    ELSE IF Defaults(cfg) # {} THEN cfg[CHOOSE i \in Defaults(cfg) : TRUE].name
    ELSE cfg[1].name

(* C9: the effective configuration is the entry named by the name argument
   when one is given, otherwise the entry marked default, otherwise the
   first declared entry (for a mapping of sqlalchemy entries with at most one
   default, a name that is declared, and a class default that is unset or
   agrees with the mapping). *)
C9_ResolvedByPrecedence ==
    ( /\ result.op = "resolve"
      /\ \A i \in 1..Len(config) : config[i].type = "sqlalchemy"
      /\ Cardinality(Defaults(config)) <= 1
      /\ result.name \in {None} \cup Keys(config)
      /\ default_db_name \in {None, PrecedenceOf(config, None)} )
    => (result.ok /\ result.entry = PrecedenceOf(config, result.name))

(***************************************************************************)
(* Validation of whole documents of up to MaxDbs entries.                  *)
(***************************************************************************)
Models == {"single", "multi", "any"}

(* The documents: entries declared in the order main, aux, name. *)
NameAt == <<"main", "aux", "name">>
Payloads ==
    {Raw(None, None, d, FALSE, dialect, uri, NoParams, path, FALSE, None) :
        d \in BOOLEAN, dialect \in {None, "mysql", "sqlite"},
        uri \in {None, "u"}, path \in {None, "p"}}
Documents ==
    {[i \in 1..Len(q) |-> [q[i] EXCEPT !.name = NameAt[i]]] :
        q \in SeqsUpTo(Payloads, MaxDbs) \ {<<>>}}

InitValidate ==
    /\ config \in Documents
    /\ default_db_name = None
    /\ result = NoResult
    /\ Idle

Validate(model) ==
    /\ result.op = "none"
    /\ LET r == validate_db_model(config, model)
       IN  result' = [NoResult EXCEPT !.op = "validate", !.model = model,
                                      !.ok = r.ok, !.err = r.err,
                                      !.valid = r.ok /\ r.val]
    /\ UNCHANGED <<config, default_db_name, status, g, dbs, ncalls, acquired, last>>

NextValidate == \E model \in Models : Validate(model)

SpecValidate == InitValidate /\ [][NextValidate]_vars

(* C10: validation of a multi-database document in which more than one entry
   has default=true fails. *)
C10_ManyDefaultsRejected ==
    (result.op = "validate" /\ Cardinality(Defaults(config)) > 1)
        => ~result.valid

(***************************************************************************)
(* get_default_db(self, config), called with the class as self.  The loop  *)
(* variable is named config too: every entry marked default assigns its    *)
(* name to self.default_db_name (the last one stays), and after the loop   *)
(* config is the dict of the last entry, so that the value returned is the *)
(* first (key, value) item of that dict.  For an empty mapping the loop    *)
(* does not run and next() raises StopIteration.  Nothing is warned.       *)
(***************************************************************************)
LastOf(S) == CHOOSE i \in S : \A j \in S : j <= i

get_default_db(self_default_db_name, cfg) ==
    [default_db_name |-> IF Defaults(cfg) = {} THEN self_default_db_name
                         ELSE cfg[LastOf(Defaults(cfg))].name,
     ret |-> IF cfg = <<>> THEN Raise(Err("StopIteration"))
             ELSE Return(<<"item", <<cfg[Len(cfg)].name>>>>),
     warned |-> FALSE]

InitDefault ==
    /\ config \in ResolveConfigs
    /\ default_db_name = None
    /\ result = NoResult
    /\ Idle

GetDefault ==
    /\ result.op = "none"
    /\ LET r == get_default_db(default_db_name, config)
       IN  /\ default_db_name' = r.default_db_name
           /\ result' = [NoResult EXCEPT !.op = "get_default_db", !.ok = r.ret.ok,
                                         !.err = r.ret.err,
                                         !.entry = r.default_db_name,
                                         !.returned = IF r.ret.ok THEN r.ret.val ELSE NoValue,
                                         !.warned = r.warned]
    /\ UNCHANGED <<config, status, g, dbs, ncalls, acquired, last>>

NextDefault == GetDefault

SpecDefault == InitDefault /\ [][NextDefault]_vars

(* C11: for a mapping without an entry marked default, the first declared
   entry becomes the default and a warning is recorded; with exactly one
   entry marked default, that entry is the default and no warning is
   recorded. *)
C11_DefaultSelected ==
    result.op = "get_default_db" =>
        /\ Defaults(config) = {} =>
              (default_db_name = config[1].name /\ result.warned)
        /\ Cardinality(Defaults(config)) = 1 =>
              (default_db_name = config[LastOf(Defaults(config))].name
                  /\ ~result.warned)

(***************************************************************************)
(* Validation of one entry in all its shapes.  The entry is named "name",  *)
(* the key BaseDB.__init__ selects.  It is validated as the constructor    *)
(* does, handing the dict of the entry to the validator with the default   *)
(* model "single", and as a document {name: entry} under the models        *)
(* "single" and "multi".                                                   *)
(***************************************************************************)
ParamsDicts == {NoParams, [present |-> TRUE, driver |-> None],
                [present |-> TRUE, driver |-> "d"]}

EntryConfigs ==
    {<< [Raw("name", t, FALSE, FALSE, dialect, uri, params, path, use_odbc, driver)
            EXCEPT !.connection_params = cp] >> :
        t \in {None, "sqlalchemy"}, dialect \in {None, "mysql", "sqlite", "db2"},
        uri \in {None, "u"}, path \in {None, "p"},
        params \in ParamsDicts, cp \in ParamsDicts,
        use_odbc \in BOOLEAN, driver \in {None, "d"}}

InitEntry ==
    /\ config \in EntryConfigs
    /\ default_db_name = "name"
    /\ result = NoResult
    /\ Idle

(* What the call ended in, as a result. *)
Validated(op, model, c) ==
    LET r == validate_and_return(c)
    IN  [NoResult EXCEPT !.op = op, !.model = model, !.ok = r.ok, !.err = r.err,
                         !.valid = r.ok /\ r.val, !.msgs = c.msgs,
                         !.warned = c.warned]

(* validate_db_config(self.config): the dict of the entry, model "single". *)
ValidateConfig ==
    /\ result.op = "none"
    /\ result' = Validated("validate_config", "single", DatabaseModel(config[1]))
    /\ UNCHANGED <<config, default_db_name, status, g, dbs, ncalls, acquired, last>>

(* validate_db_model({name: entry}, model) *)
ValidateDocument(model) ==
    /\ result.op = "none"
    /\ result' = Validated("validate_document", model,
                           IF model = "single" THEN SingleModel(config)
                           ELSE MultiDatabaseModel(config))
    /\ UNCHANGED <<config, default_db_name, status, g, dbs, ncalls, acquired, last>>

TheEntry == config[1]
IsValidated == result.op \in {"validate_config", "validate_document"}

(* C12: a configuration whose dialect is missing or is not one of the five
   supported dialects never validates. *)
C12_DialectRequired ==
    (IsValidated /\ TheEntry.dialect \notin Dialects) => ~result.valid

(* An entry that meets every other rule and names an unsupported dialect is
   rejected for its dialect. *)
C12_Witness ==
    /\ IsValidated /\ TheEntry.dialect = "db2" /\ TheEntry.uri = "u"
    /\ result.ok /\ ~result.valid /\ result.msgs = {"dialect"}

(* C13: a configuration with dialect sqlite (which does not ask for ODBC
   without naming a driver) validates exactly when it has a path, whatever
   uri and connection parameters it carries. *)
C13_SqliteNeedsPath ==
    (IsValidated /\ TheEntry.dialect = "sqlite"
        /\ (TheEntry.use_odbc => TheEntry.driver # None))
    => (result.valid <=> TheEntry.path # None)

(* A sqlite entry with a path and neither uri nor connection parameters is
   accepted. *)
C13_Witness ==
    /\ IsValidated /\ TheEntry.dialect = "sqlite" /\ TheEntry.path = "p"
    /\ TheEntry.uri = None /\ ~TheEntry.params.present
    /\ ~TheEntry.connection_params.present
    /\ result.valid

(* Connection parameters are supplied: under the key params, which the
   validator reads, or under the declared field connection_params. *)
Supplied(e) == e.params.present \/ e.connection_params.present
OtherDialect(e) == e.dialect \in Dialects \ {"sqlite"}

(* C14: a configuration of a dialect other than sqlite (which does not ask
   for ODBC without naming a driver) is rejected when it has neither uri nor
   connection parameters, and accepted when it has exactly one of the two. *)
C14_UriOrParams ==
    (IsValidated /\ OtherDialect(TheEntry)
        /\ (TheEntry.use_odbc => TheEntry.driver # None))
    => /\ (TheEntry.uri = None /\ ~Supplied(TheEntry)) => ~result.valid
       /\ ((TheEntry.uri = None) # (~Supplied(TheEntry))) => result.valid

(* C15: a configuration of a dialect other than sqlite that has both uri and
   connection parameters is accepted, and a warning is recorded. *)
C15_BothWarns ==
    (IsValidated /\ OtherDialect(TheEntry)
        /\ (TheEntry.use_odbc => TheEntry.driver # None)
        /\ TheEntry.uri # None /\ Supplied(TheEntry))
    => (result.valid /\ result.warned)

(* The driver an ODBC connection can take: the top-level driver, or the
   driver of the connection parameters. *)
Resolvable(e) ==
    \/ e.driver # None
    \/ (e.params.present /\ e.params.driver # None)
    \/ (e.connection_params.present /\ e.connection_params.driver # None)

(* C16: a configuration that uses ODBC and meets the other rules (a supported
   dialect, a path for sqlite, a uri otherwise) is accepted exactly when a
   driver is resolvable from the top-level field or from the connection
   parameters. *)
C16_OdbcNeedsDriver ==
    (IsValidated /\ TheEntry.use_odbc /\ TheEntry.dialect \in Dialects
        /\ (TheEntry.dialect = "sqlite" => TheEntry.path # None)
        /\ (TheEntry.dialect # "sqlite" => TheEntry.uri # None))
    => (result.valid <=> Resolvable(TheEntry))

(* The rules of the validator an entry violates. *)
RulesViolated(e) ==
    {m \in {"dialect"} : e.dialect \notin Dialects}
    \cup {m \in {"sqlite_path"} : e.dialect = "sqlite" /\ e.path = None}
    \cup {m \in {"uri_or_params"} :
            e.dialect # "sqlite" /\ e.uri = None /\ ~e.params.present}
    \cup {m \in {"missing_driver"} :
            /\ e.use_odbc /\ e.driver = None
            /\ ~(e.params.present /\ e.params.driver # None)}

(* C17: the error by which a document is rejected names every rule its entry
   violates. *)
C17_EveryViolationReported ==
    (result.op = "validate_document" /\ result.model = "single"
        /\ result.ok /\ ~result.valid)
    => result.msgs = RulesViolated(TheEntry)

(***************************************************************************)
(* Loading: the first get_session() of a request with this configuration,  *)
(* BaseDB.default_db_name being "name".  The result keeps the verdict the  *)
(* validator gives on the entry the constructor selects.                   *)
(***************************************************************************)
Load ==
    /\ result.op = "none"
    /\ status[1] = "idle"
    /\ \E rest \in BOOLEAN, eng \in EngineOutcomes :
          CallGetSession(1, None, rest, eng)
    /\ status' = [status EXCEPT ![1] = IF last'.ok THEN "active" ELSE "aborted"]
    /\ result' = Validated("load", "single", DatabaseModel(config[1]))
    /\ UNCHANGED <<config, default_db_name, ncalls>>

NextEntry ==
    \/ ValidateConfig
    \/ \E model \in {"single", "multi"} : ValidateDocument(model)
    \/ Load

SpecEntry == InitEntry /\ [][NextEntry]_vars

(* C18: when the configuration fails validation, loading is aborted: the
   call does not return a db object, none is constructed and no connection
   is attempted. *)
C18_InvalidNeverConnects ==
    (result.op = "load" /\ ~result.valid)
    => (~last.ok /\ ~last.connFail /\ dbs[1] = <<>>)

(***************************************************************************)
(* The connection string.  BaseDB.__init__ reads the attributes _driver,   *)
(* _dialect, ..., _uri with config.get(key), config being the mapping of   *)
(* all databases it was handed, not the entry it selected: _uri is the     *)
(* dict of a database that happens to be named "uri", or None.             *)
(***************************************************************************)
drivers == [dialect \in Dialects |->
               CASE dialect = "postgresql" -> "postgresql+psycopg2"
                 [] dialect = "mysql" -> "mysql+pymysql"
                 [] dialect = "sqlite" -> "sqlite"
                 [] dialect = "oracle" -> "oracle+cx_oracle"
                 [] dialect = "mssql" -> "mssql+pymssql"]

BaseDB_uri_attr(cfg) ==
    IF "uri" \in Keys(cfg) THEN <<"dict", <<"uri">>>> ELSE NoValue

(* SqAlchemyConn.uri_base_string: a property whose getter takes no self, so
   reading it raises TypeError. *)
uri_base_string == Raise(Err("TypeError"))

(* SqAlchemyConn.uri *)
SqAlchemyConn_uri(cfg) ==
    IF BaseDB_uri_attr(cfg) # NoValue THEN Return(BaseDB_uri_attr(cfg))
    ELSE uri_base_string

(* The items of a params dict, in the order of its keys; a key that holds
   None is absent.  A boolean value is written as Python prints it. *)
ParamKeys == <<"driver", "username", "password", "host", "port", "database",
               "trusted_connection">>
KeyUpper == [driver |-> "DRIVER", username |-> "USERNAME", password |-> "PASSWORD",
             host |-> "HOST", port |-> "PORT", database |-> "DATABASE",
             trusted_connection |-> "TRUSTED_CONNECTION"]
IsBool(value) == value \in {"True", "False"}
YesNo(value) == IF value = "True" THEN "yes" ELSE "no"

RECURSIVE ItemsFrom(_, _)
ItemsFrom(params, i) ==
    IF i > Len(ParamKeys) THEN <<>>
    ELSE (IF params[ParamKeys[i]] # None
          THEN << <<ParamKeys[i], params[ParamKeys[i]]>> >> ELSE <<>>)
         \o ItemsFrom(params, i + 1)

(* The loop of OdbcConn.uri over the items: the append is inside the test
   isinstance(value, bool), so only the boolean parameters are appended. *)
RECURSIVE BooleanSegments(_)
BooleanSegments(items) ==
    IF items = <<>> THEN <<>>
    ELSE (IF IsBool(Head(items)[2])
          THEN << <<KeyUpper[Head(items)[1]], "=", YesNo(Head(items)[2])>> >>
          ELSE <<>>)
         \o BooleanSegments(Tail(items))

(* OdbcConn.uri: self.params falls to __getattr__, that is to the params of
   the selected entry; the value returned is the list of the segments, not
   joined. *)
OdbcConn_uri(cfg) ==
    IF BaseDB_uri_attr(cfg) # NoValue THEN Return(BaseDB_uri_attr(cfg))
    ELSE IF ~Item(cfg, "name").params.present THEN Raise(Err("AttributeError"))
    ELSE Return(<<"list",
                  << <<"DRIVER={", Item(cfg, "name").params.driver, "}">> >>
                  \o BooleanSegments(ItemsFrom(Item(cfg, "name").params, 1))>>)

(* The mappings: the entry "name", which the constructor selects, alone or
   followed by a database named "uri". *)
UriParams ==
    {NoParams} \cup
    {[present |-> TRUE, driver |-> driver, username |-> "u", password |-> pw,
      host |-> "h", port |-> port, database |-> "d",
      trusted_connection |-> trusted] :
        driver \in {None, "d"}, pw \in {None, "p"}, port \in {None, "3306"},
        trusted \in {None, "True", "False"}}
UriEntries(n) ==
    {Raw(n, "sqlalchemy", FALSE, FALSE, dialect, uri, params, None, FALSE, None) :
        dialect \in {"mysql", "postgresql"}, uri \in {None, "u"},
        params \in UriParams}
UriConfigs ==
    {<<e>> : e \in UriEntries("name")}
    \cup {<<e, f>> : e \in UriEntries("name"), f \in UriEntries("uri")}

InitUri ==
    /\ config \in UriConfigs
    /\ default_db_name = "name"
    /\ result = NoResult
    /\ Idle

BuildUri(cls) ==
    /\ result.op = "none"
    /\ LET r == IF cls = "sqlalchemy" THEN SqAlchemyConn_uri(config)
                ELSE OdbcConn_uri(config)
       IN  result' = [NoResult EXCEPT !.op = "uri", !.model = cls, !.ok = r.ok,
                                      !.err = r.err,
                                      !.returned = IF r.ok THEN r.val ELSE NoValue]
    /\ UNCHANGED <<config, default_db_name, status, g, dbs, ncalls, acquired, last>>

NextUri == \E cls \in {"sqlalchemy", "odbc"} : BuildUri(cls)

SpecUri == InitUri /\ [][NextUri]_vars

(* C19: when the selected entry has a uri, the connection string is that uri,
   whether or not the entry also has connection parameters. *)
C19_UriVerbatim ==
    (result.op = "uri" /\ TheEntry.uri # None)
    => (result.ok /\ result.returned = <<"str", <<TheEntry.uri>>>>)

(* The string "{driver}://{username}:{password}@{host}:{port}/{database}"
   with the prefix of the dialect, the password and the port left out with
   their colons when absent. *)
Composed(e) ==
    <<drivers[e.dialect], "://", e.params.username>>
    \o (IF e.params.password # None THEN <<":", e.params.password>> ELSE <<>>)
    \o <<"@", e.params.host>>
    \o (IF e.params.port # None THEN <<":", e.params.port>> ELSE <<>>)
    \o <<"/", e.params.database>>

(* C20: for the native connector and an entry without uri, the connection
   string is composed from the connection parameters, with the driver prefix
   of the dialect and without dangling separators for an absent password or
   port. *)
C20_UriComposed ==
    (result.op = "uri" /\ result.model = "sqlalchemy"
        /\ TheEntry.uri = None /\ TheEntry.params.present)
    => (result.ok /\ result.returned = <<"str", Composed(TheEntry)>>)

(* "DRIVER={driver}" followed by ";KEY=VAL" for every item but the driver,
   a boolean written as yes or no. *)
RECURSIVE Segments(_)
Segments(items) ==
    IF items = <<>> THEN <<>>
    ELSE (IF Head(items)[1] = "driver" THEN <<>>
          ELSE <<";", KeyUpper[Head(items)[1]], "=",
                 IF IsBool(Head(items)[2]) THEN YesNo(Head(items)[2])
                 ELSE Head(items)[2]>>)
         \o Segments(Tail(items))

(* C21: for the ODBC connector and an entry without uri whose connection
   parameters name a driver, the connection string is one string: the driver
   segment followed by a segment for every parameter provided, boolean or
   not. *)
C21_OdbcString ==
    (result.op = "uri" /\ result.model = "odbc" /\ TheEntry.uri = None
        /\ TheEntry.params.present /\ TheEntry.params.driver # None)
    => (result.ok /\ result.returned[1] = "str"
        /\ result.returned[2] =
              <<"DRIVER={", TheEntry.params.driver, "}">>
              \o Segments(ItemsFrom(TheEntry.params, 1)))

(***************************************************************************)
(* Stored procedures: BaseDB.call_stored_procedure, src/database/db.py.    *)
(***************************************************************************)
(* The property dialect: self._dialect when it is truthy, else
   'sqlalchemy'.  self._dialect = config.get('dialect') reads the mapping of
   all the databases: the dict of a database named "dialect", or None. *)
BaseDB_dialect(cfg) ==
    IF "dialect" \in Keys(cfg) THEN <<"dict", <<"dialect">>>>
    ELSE <<"str", <<"sqlalchemy">>>>

(* ', '.join of the placeholders of the keys, in the order of the mapping:
   '@key=:key' for mssql, ':key' for the others; '' without params. *)
RECURSIVE Placeholders(_, _)
Placeholders(keys, named) ==
    IF keys = <<>> THEN <<>>
    ELSE (IF named THEN <<"@", Head(keys), "=:", Head(keys)>>
          ELSE <<":", Head(keys)>>)
         \o (IF Tail(keys) # <<>> THEN <<", ">> ELSE <<>>)
         \o Placeholders(Tail(keys), named)

sql_templates(procedure_name, params) ==
    [postgresql |-> <<"CALL ", procedure_name, "(">>
                    \o Placeholders(NamesOf(params), FALSE) \o <<")">>,
     mysql |-> <<"CALL ", procedure_name, "(">>
               \o Placeholders(NamesOf(params), FALSE) \o <<")">>,
     mssql |-> <<"EXEC ", procedure_name, " ">>
               \o Placeholders(NamesOf(params), TRUE),
     oracle |-> <<"BEGIN ", procedure_name, "(">>
                \o Placeholders(NamesOf(params), FALSE) \o <<"); END;">>]

(***************************************************************************)
(* call_stored_procedure(procedure_name, params) on db object d, run by    *)
(* scope s.  The template is looked up with sql_templates[dialect] before  *)
(* the membership test: a dialect that is no key raises KeyError, one that *)
(* is a dict raises TypeError (unhashable).  The statement goes to the     *)
(* connector's execute, not to _execute: no commit, no rollback; nothing   *)
(* is returned.  statement and bound are what reached the session.         *)
(***************************************************************************)
call_stored_procedure(H, d, s, cfg, procedure_name, params, drv) ==
    LET dl == BaseDB_dialect(cfg)
        c == Obj(H, d).conn
        raised(e) == [dbs |-> H, res |-> Raise(e), statement |-> <<>>,
                      bound |-> <<>>, execFail |-> FALSE,
                      commits |-> 0, rollbacks |-> 0]
    IN  IF dl[1] = "str" /\ dl[2] = <<"sqlite">> THEN raised(Err("ValueError"))
        ELSE IF dl[1] # "str" THEN raised(Err("TypeError"))
        ELSE IF dl[2][1] \notin DOMAIN sql_templates(procedure_name, params)
             THEN raised(Err("KeyError"))
        ELSE LET procedure_sql == sql_templates(procedure_name, params)[dl[2][1]]
                 r == execute(procedure_sql, params, drv)
             IN  IF c = NoConn THEN raised(Err("AttributeError"))
                 ELSE [dbs |-> Touch(H, d, c, s),
                       res |-> IF r.ok THEN Return(NoValue) ELSE r,
                       statement |-> procedure_sql, bound |-> NamesOf(params),
                       execFail |-> ~r.ok, commits |-> 0, rollbacks |-> 0]

(* One sqlalchemy database "name" of each dialect, alone or followed by a
   database named "dialect". *)
ProcedureEntry(n, dl) ==
    Raw(n, "sqlalchemy", FALSE, FALSE, dl, "u",
        NoParams, IF dl = "sqlite" THEN "p" ELSE None, FALSE, None)
ProcedureConfigs ==
    {<<ProcedureEntry("name", dl)>> : dl \in Dialects}
    \cup {<<ProcedureEntry("name", dl), ProcedureEntry("dialect", "mysql")>> :
            dl \in Dialects}

InitProcedure ==
    /\ config \in ProcedureConfigs
    /\ default_db_name = "name"
    /\ result = NoResult
    /\ Idle

(* The view calls a stored procedure on the db object of its scope. *)
CallProcedure(s) ==
    /\ status[s] = "active"
    /\ ncalls[s] < MaxCalls
    /\ g[s] # NoDb
    /\ \E procedure_name \in {"get_user"},
          params \in {<<>>, << <<"id", 5>> >>, << <<"id", 5>>, <<"n", 6>> >>,
                      << <<"n", 6>>, <<"id", 5>> >>},
          drv \in DriverOutcomes :
          LET r == call_stored_procedure(dbs, g[s], s, config,
                                         procedure_name, params, drv)
          IN  /\ dbs' = r.dbs
              /\ last' = [NoCall EXCEPT !.op = "call_stored_procedure",
                                        !.scope = s, !.sql = r.statement,
                                        !.pnames = r.bound,
                                        !.ok = r.res.ok, !.err = r.res.err,
                                        !.execFail = r.execFail,
                                        !.commits = r.commits,
                                        !.rollbacks = r.rollbacks]
              /\ result' = [NoResult EXCEPT !.op = "call_stored_procedure",
                                            !.name = procedure_name,
                                            !.supplied = NamesOf(params),
                                            !.ok = r.res.ok, !.err = r.res.err,
                                            !.returned = IF r.res.ok THEN r.res.val
                                                         ELSE NoValue]
    /\ ncalls' = [ncalls EXCEPT ![s] = @ + 1]
    /\ UNCHANGED <<config, default_db_name, status, g, acquired>>

NextProcedure ==
    \E s \in Scopes :
        \/ BeforeRequest(s)
        \/ CallProcedure(s)
        \/ Teardown(s)

SpecProcedure == InitProcedure /\ [][NextProcedure]_vars

(* The call on a session that is open: the db object of the calling scope
   holds a connection. *)
CalledOnOpen ==
    /\ last.op = "call_stored_procedure"
    /\ g[last.scope] # NoDb
    /\ Obj(dbs, g[last.scope]).conn # NoConn

(* The call syntax of the dialect for a name and the keys k1..kn. *)
CallSyntax(dl, name, keys) ==
    CASE dl \in {"mysql", "postgresql"} ->
            <<"CALL ", name, "(">> \o Placeholders(keys, FALSE) \o <<")">>
      [] dl = "mssql" -> <<"EXEC ", name, " ">> \o Placeholders(keys, TRUE)
      [] dl = "oracle" ->
            <<"BEGIN ", name, "(">> \o Placeholders(keys, FALSE) \o <<"); END;">>

(* C22: a call on an open session of a mysql, postgresql, mssql or oracle
   database generates the call syntax of that dialect, with the parameters in
   the order of the mapping. *)
C22_CallSyntax ==
    (CalledOnOpen /\ TheEntry.dialect \in {"mysql", "postgresql", "mssql", "oracle"})
    => last.sql = CallSyntax(TheEntry.dialect, result.name, result.supplied)

(* C23: a call on a sqlite database raises the error of the unsupported
   operation (the ValueError "SQLite does not support stored procedures."),
   executes no statement on the session and issues no commit and no
   rollback. *)
C23_SqliteUnsupported ==
    (last.op = "call_stored_procedure" /\ TheEntry.dialect = "sqlite")
    => /\ ~last.ok
       /\ last.err.type = "ValueError"
       /\ last.sql = <<>>
       /\ last.commits = 0 /\ last.rollbacks = 0

(* C24: a call on an open session of a dialect that has stored procedures,
   the driver answering without error, has executed a statement with the
   supplied params bound to it and returns a result, not None. *)
C24_ExecutesAndReturns ==
    (CalledOnOpen /\ TheEntry.dialect # "sqlite"
        /\ ~(~last.ok /\ last.err.type = "SQLAlchemyError"))
    => /\ last.ok
       /\ last.sql # <<>>
       /\ last.pnames = result.supplied
       /\ result.returned # NoValue

(***************************************************************************)
(* Classification of a statement: is_write_cmd, src/core/db_olds.py.       *)
(* A statement is built from leading whitespace, a first word, the rest    *)
(* and trailing whitespace.  The first word is one of the three write      *)
(* words in some spelling of its case, or a word that is none of them.     *)
(***************************************************************************)
Spellings(word) == {word, lower(word), <<Head(word)>> \o lower(Tail(word))}

(* The first words with the write word each is a spelling of (None for the
   words that are none). *)
FirstWords ==
    {<<v, w>> \in (UNION {Spellings(w) : w \in write_cmd}) \X write_cmd :
        v \in Spellings(w)}
    \cup {<<v, <<>>>> : v \in { <<>>, SelectOne, upper(SelectOne),
                                <<"U", "P", "D", "A", "T">>,
                                <<"m", "e", "r", "g", "e">>,
                                <<"-", "-", "d", "e", "l", "e", "t", "e">> }}

(* No configuration, no scope started, nothing called yet. *)
InitPure ==
    /\ config = <<>>
    /\ default_db_name = None
    /\ result = NoResult
    /\ Idle

(* is_write_cmd(query) on a statement built from its parts; supplied keeps
   the write word the first word is a spelling of. *)
Classify ==
    /\ result.op = "none"
    /\ \E lead \in {<<>>, <<" ">>, <<"\n", "\t">>}, first \in FirstWords,
          rest \in {<<>>, <<" ", "t">>}, trail \in {<<>>, <<" ">>} :
          LET query == lead \o first[1] \o rest \o trail
          IN  /\ last' = [NoCall EXCEPT !.op = "is_write_cmd", !.sql = query]
              /\ result' = [NoResult EXCEPT !.op = "is_write_cmd",
                                            !.supplied = first[2],
                                            !.valid = is_write_cmd(query)]
    /\ UNCHANGED <<config, default_db_name, status, g, dbs, ncalls, acquired>>

SpecClassify == InitPure /\ [][Classify]_vars

(* C25: a statement is classified as write exactly when, without its
   leading and trailing whitespace, it starts with UPDATE, INSERT or DELETE
   in any spelling of the case; every other statement is read. *)
C25_WriteIffKeyword ==
    result.op = "is_write_cmd" => (result.valid <=> result.supplied \in write_cmd)

(* A statement with leading whitespace and a lower-case write word,
   classified as write. *)
C25_Witness ==
    /\ result.op = "is_write_cmd"
    /\ result.valid
    /\ Len(last.sql) > 1
    /\ last.sql[1] \in Whitespace
    /\ lstrip(last.sql)[1] \in {"u", "i", "d"}

(***************************************************************************)
(* Projection of the rows of an execution.  A value returned is            *)
(* <<kind, rows>>: "dict" is the mapping made of one row, "list" a list of *)
(* the mappings made of the rows, "result" the result object of the        *)
(* driver holding the rows as it returned them.                            *)
(***************************************************************************)
MaxRows == 3
RowSeqs == UNION {[1..n -> {"r1", "r2"}] : n \in 0..MaxRows}

(* SqAlchemyConn.execute returns the result object of Session.execute, and
   BaseDB.process_result returns what it is given (src/database/db.py). *)
SqAlchemyConn_execute_result(rows) == <<"result", rows>>
process_result(data) == data

(* cls.output in the classmethod _process of src/db/db.py: the class
   defines no attribute output. *)
BaseDB_output == Raise(Err("AttributeError"))

(* BaseDB._process (src/db/db.py): results = [dict(row) for row in data];
   the test len(results) == 1 and cls.output == 'dict' reads cls.output only
   when there is exactly one row. *)
_process(data) ==
    IF Len(data) = 1
    THEN IF ~BaseDB_output.ok THEN BaseDB_output
         ELSE IF BaseDB_output.val = "dict" THEN Return(<<"dict", data>>)
         ELSE Return(<<"list", data>>)
    ELSE Return(<<"list", data>>)

(* The projection of the rows of one execution, the configuration asking
   for `output`; name keeps the output, supplied the rows. *)
Project(impl) ==
    /\ result.op = "none"
    /\ \E output \in {None, "dict", "list", "df"}, rows \in RowSeqs :
          LET r == IF impl = "process_result"
                   THEN Return(process_result(SqAlchemyConn_execute_result(rows)))
                   ELSE _process(rows)
          IN  result' = [NoResult EXCEPT !.op = "project", !.model = impl,
                                         !.name = output, !.supplied = rows,
                                         !.ok = r.ok, !.err = r.err,
                                         !.returned = IF r.ok THEN r.val ELSE NoValue]
    /\ UNCHANGED <<config, default_db_name, status, g, dbs, ncalls, acquired, last>>

NextProject == \E impl \in {"process_result", "_process"} : Project(impl)

SpecProject == InitPure /\ [][NextProject]_vars

(* C26: the projection never fails; it is the single mapping of the row
   when the output is dict and there is exactly one row, and otherwise the
   sequence of the mappings of the rows, empty for no rows. *)
C26_Projection ==
    result.op = "project"
    => /\ result.ok
       /\ result.returned[1] =
             (IF result.name = "dict" /\ Len(result.supplied) = 1
              THEN "dict" ELSE "list")
       /\ result.returned[2] = result.supplied

(***************************************************************************)
(* Reading a configuration into a connection object: BaseDB.read_config,   *)
(* src/db/db.py.  The method conn binds self.conn to the dict              *)
(* config[name]['connection'] itself, not to a copy; a key that is absent  *)
(* holds None.  The constructor runs self.conn = self.conn(), which then   *)
(* rebinds self.conn to what the method returns, None; `held` tells        *)
(* whether the object still holds the dict when read_config runs.          *)
(***************************************************************************)
Connections ==
    {[name |-> "name", uri |-> uri, connector |-> connector, dialect |-> dl,
      driver |-> None, args |-> args, params |-> params, function |-> function] :
        uri \in {None, "u"}, connector \in {None, "sqlalchemy", "odbc", "dsn"},
        dl \in {None, "mysql"}, args \in {None, "a"}, params \in {None, "p"},
        function \in {None, "f"}}

allowed_connectors == {"sqlalchemy", "odbc"}

(* dict.pop(key) without a default: the dict without the key, or KeyError. *)
pop(conn, key) ==
    IF conn[key] = None THEN [conn |-> conn, res |-> Raise(Err("KeyError"))]
    ELSE [conn |-> [conn EXCEPT ![key] = None], res |-> Return(conn[key])]

(***************************************************************************)
(* read_config on a new connection object whose self.conn is `conn` (None  *)
(* unless held: None.get raises AttributeError).  The                      *)
(* value is the dict as the call leaves it and, when the call returns, the *)
(* connection string the object holds (self._database_uri, None when it    *)
(* was not set).  self._database_uri is assigned nowhere else, so the test *)
(* `not self._database_uri` of an object without uri raises                *)
(* AttributeError.                                                         *)
(***************************************************************************)
read_config(conn, held) ==
    LET raised(c, t) == [conn |-> c, res |-> Raise(Err(t))]
        database_uri == conn.uri
        connector == conn.connector
        c1 == IF connector # None /\ connector \in allowed_connectors
              THEN pop(conn, "connector").conn ELSE conn
        a == pop(c1, "args")
        b == pop(a.conn, "params")
        f == pop(b.conn, "function")
    IN  IF ~held THEN raised(conn, "AttributeError")
        ELSE IF connector # None /\ connector \notin allowed_connectors
        THEN raised(conn, "ValueError")
        ELSE IF database_uri # None /\ connector = None THEN raised(c1, "ValueError")
        ELSE IF conn.dialect = None /\ database_uri = None
             THEN raised(c1, "AttributeError")
        ELSE IF ~a.res.ok THEN raised(a.conn, "KeyError")
        ELSE IF ~b.res.ok THEN raised(b.conn, "KeyError")
        ELSE IF ~f.res.ok THEN raised(f.conn, "KeyError")
        ELSE [conn |-> f.conn,
              res |-> Return(IF database_uri # None THEN <<"str", <<database_uri>>>>
                             ELSE NoValue)]

InitRead ==
    /\ config \in {<<c>> : c \in Connections}
    /\ default_db_name = "name"
    /\ result = NoResult
    /\ Idle

(* A connection object is made for the database and reads its config. *)
ReadConfig ==
    /\ ncalls[1] < MaxCalls
    /\ \E held \in BOOLEAN :
          LET r == read_config(config[1], held)
          IN  /\ config' = <<r.conn>>
              /\ result' = [NoResult EXCEPT !.op = "read_config", !.valid = held,
                                            !.ok = r.res.ok, !.err = r.res.err,
                                            !.returned = IF r.res.ok THEN r.res.val
                                                         ELSE NoValue]
    /\ ncalls' = [ncalls EXCEPT ![1] = @ + 1]
    /\ UNCHANGED <<default_db_name, status, g, dbs, acquired, last>>

SpecRead == InitRead /\ [][ReadConfig]_vars

(* C27: reading a configuration into a connection object leaves the
   configuration unchanged, and reading the same configuration again into
   an object that holds it as the first did ends the same way with the same
   connection string. *)
C27_ConfigReadOnly ==
    [][/\ config' = config
       /\ (result.op = "read_config" /\ result'.valid = result.valid)
             => result' = result]_vars

(***************************************************************************)
(* The paging and sorting hooks of BaseDB._execute, src/database/db.py.    *)
(***************************************************************************)
(* Plain statements, calls of stored procedures and a statement that only
   starts like one. *)
HookStatements ==
    Statements \cup { <<"c", "a", "l", "l", " ", "p">>,
                      <<"E", "X", "E", "C", "\t", "p">>,
                      <<" ", "b", "e", "g", "i", "n", "\n", "p">>,
                      <<"c", "a", "l", "l", "b", "a", "c", "k">> }

(* The hooks _execute invokes for a statement, in the order of the calls:
   _page always, and _page calls _sort when the statement is a call of a
   stored procedure.  Neither self._auto_page nor self._auto_sort is read. *)
HooksInvoked(sql, switches) ==
    <<"_page">> \o (IF is_stored_procedure(sql) THEN <<"_sort">> ELSE <<>>)

(* The try block of _execute on an open session: the hooks, then the
   connector's execute.  msgs keeps the output controls the configuration
   switches on (the constructor keeps them in self._auto_page and
   self._auto_sort), supplied the hooks invoked, returned the statement
   handed to execute. *)
ExecuteWithHooks ==
    /\ result.op = "none"
    /\ \E sql \in HookStatements, params \in Params, switches \in SUBSET {"auto_page", "auto_sort"},
          drv \in DriverOutcomes :
          LET query == _page(sql)
              r == execute(query, params, drv)
          IN  /\ last' = [NoCall EXCEPT !.op = "_execute", !.sql = sql,
                                        !.pnames = NamesOf(params),
                                        !.ok = r.ok, !.err = r.err,
                                        !.execFail = ~r.ok]
              /\ result' = [NoResult EXCEPT !.op = "_execute", !.msgs = switches,
                                            !.supplied = HooksInvoked(sql, switches),
                                            !.ok = r.ok, !.err = r.err,
                                            !.returned = <<"str", query>>]
    /\ UNCHANGED <<config, default_db_name, status, g, dbs, ncalls, acquired>>

SpecHooks == InitPure /\ [][ExecuteWithHooks]_vars

Invoked(hook) == \E i \in 1..Len(result.supplied) : result.supplied[i] = hook

(* C28: the paging hook is invoked only when auto_page is on and the
   sorting hook only when auto_sort is on, and with the default hooks the
   statement handed to the connector's execute is the statement the caller
   submitted. *)
C28_HooksOnlyWhenEnabled ==
    result.op = "_execute"
    => /\ Invoked("_page") => "auto_page" \in result.msgs
       /\ Invoked("_sort") => "auto_sort" \in result.msgs
       /\ result.returned = <<"str", last.sql>>

(***************************************************************************)
(* teardown_db on its own: a scope starts with the before_request hook,    *)
(* ends with teardown_db, and teardown_db may be run again on a scope that *)
(* has ended (ncalls counts these further runs).                           *)
(***************************************************************************)
TeardownAgain(s) ==
    /\ status[s] = "done"
    /\ ncalls[s] < MaxCalls
    /\ LET r == teardown_db(dbs, g, s, NoErr)
       IN  /\ g' = r.g
           /\ dbs' = r.dbs
           /\ last' = [NoCall EXCEPT !.op = "teardown_db", !.scope = s,
                                     !.ok = r.res.ok, !.err = r.res.err]
    /\ ncalls' = [ncalls EXCEPT ![s] = @ + 1]
    /\ UNCHANGED <<config, default_db_name, status, acquired, result>>

NextTeardown ==
    \E s \in Scopes :
        \/ BeforeRequest(s)
        \/ Teardown(s)
        \/ TeardownAgain(s)

SpecTeardown == Init /\ [][NextTeardown]_vars

(* C29: after teardown_db the scope holds no db object, also when closing
   raised; and teardown_db on a scope that holds none (nothing was acquired,
   or teardown_db has run already) raises nothing and changes nothing. *)
C29_TeardownOnEmptyScope ==
    [][last'.op = "teardown_db"
         => /\ g'[last'.scope] = NoDb
            /\ g[last'.scope] = NoDb => (last'.ok /\ dbs' = dbs /\ g' = g)]_vars

(* teardown_db has run again on a scope whose session the first run closed:
   it raised nothing and the session is closed once. *)
C29_Witness ==
    /\ last.op = "teardown_db" /\ last.ok
    /\ ncalls[last.scope] >= 1
    /\ g[last.scope] = NoDb
    /\ \E p \in SessionsOf(last.scope) : SessionAt(last.scope, p).closes = 1

(***************************************************************************)
(* Acquisitions by name: the view calls get_session(name) with any name,   *)
(* and the name of the call is kept in result.                             *)
(***************************************************************************)
ViewGetSessionNamed(s) ==
    /\ status[s] = "active"
    /\ ncalls[s] < MaxCalls
    /\ \E name \in {None} \cup DbNames, rest \in ConstructorEnv(s),
          eng \in EngineEnv(s) :
          /\ CallGetSession(s, name, rest, eng)
          /\ result' = [NoResult EXCEPT !.op = "get_session", !.name = name]
    /\ ncalls' = [ncalls EXCEPT ![s] = @ + 1]
    /\ UNCHANGED <<config, default_db_name, status>>

NextAcquire ==
    \E s \in Scopes :
        \/ BeforeRequest(s)
        \/ ViewGetSessionNamed(s)
        \/ Teardown(s)

SpecAcquire == Init /\ [][NextAcquire]_vars

(* C30: a call of get_session by a scope that holds a db object succeeds
   and returns that object, whatever the name: the scope keeps the object,
   and no db object and no session is created. *)
C30_NameOnlyOnFirstAcquisition ==
    [][(last'.op = "get_session" /\ g[last'.scope] # NoDb)
         => /\ last'.ok
            /\ g' = g
            /\ dbs' = dbs
            /\ acquired'[last'.scope] = acquired[last'.scope] \cup {g[last'.scope]}]_vars

(* The view of a scope holding a connected db object has called get_session
   with the name of another database. *)
C30_Witness ==
    /\ last.op = "get_session" /\ last.ok
    /\ result.op = "get_session"
    /\ ncalls[last.scope] >= 1
    /\ HasConn(last.scope)
    /\ result.name \notin {None, Obj(dbs, g[last.scope]).cfg}

====
